---- MODULE Spec2Model ----
(***************************************************************************)
(* A model of the weighted-ensemble simulation core of westpa_test:        *)
(*   - the iteration loop of WESimDriver (src/src/wemd/core/we_sim.py) and *)
(*     of DefaultSimManager (src/src/wemd/old/sim_managers/default.py),    *)
(*     over a store of segments and iteration summaries;                   *)
(*   - the equilibrium reweighting of WEEDDriver                           *)
(*     (src/src/westext/weed/weed_driver.py) and the reweight argument of  *)
(*     DefaultSimManager.run_we, over a vector of bins.                    *)
(* Optional values (None in the source) are sets of at most one element.   *)
(***************************************************************************)
EXTENDS Integers, Sequences, FiniteSets, TLC

\* ------------------------------------------------------------------ bounds
MaxIterations == 2
MaxSegs == 2
MaxClock == 2
MaxKills == 1
MaxFaults == 1
MaxWeight == 2
MaxSources == 3
WeightDen == 2

VARIABLES
    variant,          \* "we_sim" (WESimDriver) or "default" (DefaultSimManager)
    max_iterations,   \* limits.max_iterations
    max_wallclock,    \* limits.max_wallclock: {} when not configured
    start_wallclock,  \* time.time() when the run began: {} when not configured
    clock,            \* the wall clock
    pc,               \* the driver's position
    caller,           \* who called run_we: "init_sim" or "run_sim"
    cur,              \* we_driver.current_iteration (in memory)
    ckpt,             \* we_driver.current_iteration in the pickled state file
    we_iter,          \* DefaultSimManager.we_iter: the summary object it holds
    segs,             \* the store's segments; a segment's seg_id is its index
    sums,             \* the store's iteration summaries, keyed by iteration
    resampled,        \* what we_driver.run_we returned
    reweight_arg,     \* whether run_we was called with a reweight array
    err,              \* the exception that ended the run, "none" if none
    kills,            \* how many times the process was killed
    faults,           \* how many writes of run_we were made to fail
    snap,             \* the store and the driver's iteration at run_we's entry
    txn,              \* the transactions of the driver's session that were
                      \* begun and neither committed nor rolled back
    sim_config,       \* wemd.initial_particles and the init weights of
                      \* bin.source_pcoords, as DefaultSimManager.sim_init read them
    initial_segments, \* the initial segments sim_init made: the source region
                      \* of each, 0 when it has none
    do_reweight,      \* weed.do_equilibrium_reweighting
    reweight_period,  \* weed.reweight_period
    target_states,    \* whether we_driver.target_states is non-empty (sinks)
    n_iter,           \* sim_manager.n_iter
    bins,             \* the driver's bins (next_iter_binning)
    last_reweighting, \* the 'last_reweighting' attribute of the store: {} if unset
    binprobs,         \* prepare_new_iteration's binprobs
    orig_binprobs,    \* prepare_new_iteration's orig_binprobs
    w_pc,             \* the reweighting's position
    w_err,            \* what was raised: "none", "G1" or "G3" (the assertions),
                      \* "ValueError" (the constructor)
    diag,             \* whether the "not reweighting" status was printed
    bins0,            \* the bins when the reweighting step began
    last0,            \* last_reweighting when the reweighting step began
    weed_group,       \* the 'weed' group of the iteration group: "absent",
                      \* "old" (left by an earlier run of the iteration),
                      \* "created" (empty datasets) or "written"
    group0,           \* weed_group when the reweighting step began
    window,           \* the driver's windowtype, windowsize and max_windowsize
    averager,         \* what get_rates asked the rate averager for in this
                      \* call of prepare_new_iteration: {} before it
    lock              \* who holds data_manager.lock: "free", "weed" (the
                      \* reweighting driver) or "other"

loopvars == << variant, max_iterations, max_wallclock, start_wallclock, clock,
               pc, caller, cur, ckpt, we_iter, segs, sums, resampled,
               reweight_arg, err, kills, faults, snap, txn, sim_config,
               initial_segments >>

weedvars == << do_reweight, reweight_period, target_states, n_iter, bins,
               last_reweighting, binprobs, orig_binprobs, w_pc, w_err, diag,
               bins0, last0, weed_group, group0, window, averager,
               lock >>

vars == << loopvars, weedvars >>

\* ----------------------------------------------------------------- helpers
None == {}
Some(x) == {x}

NewSummary(n) == [n_particles |-> n, starttime |-> None, endtime |-> None]

\* A segment: endpoint_type is "UNSET" while no code has assigned it; p_parent is
\* the seg_id of the primary parent, {} when there is none; initial_region is
\* "ABSENT" when data has no such key, "EMPTY" when the key holds a false value,
\* "SET" when it names a region; pcoord is "NONE" until the segment is propagated.
\* WESimDriver.init_sim: Segment(seg_id, we_iter = 0, status = COMPLETE,
\* weight, pcoord).
InitialSegment == [we_iter |-> 0, status |-> "COMPLETE",
                   endpoint_type |-> "UNSET", p_parent |-> None,
                   initial_region |-> "ABSENT", weight |-> 1, pcoord |-> "SET"]

\* A particle the resampler returns: its primary parent (the particle_id of a
\* particle it was given, or none), whether its initial_region is true, and
\* its weight.
Particles(parents) ==
    [p_parent : {None} \cup {Some(i) : i \in parents},
     initial_region : BOOLEAN,
     weight : 1..MaxWeight]

\* The particle every resampling returns in the runs that do not look at the
\* lineage of the segments.
PlainParticle == [p_parent |-> None, initial_region |-> FALSE, weight |-> 1]

\* The sequences of 1..MaxSegs particles of P.
ParticleSeqs(P) == UNION { [1..n -> P] : n \in 1..MaxSegs }

RECURSIVE Repeat(_, _)
Repeat(x, n) == IF n = 0 THEN << >> ELSE Append(Repeat(x, n - 1), x)

SegIds(n) == { i \in DOMAIN segs : segs[i].we_iter = n }

NoResample == [n |-> 0, particles |-> << >>, merged |-> {}, escaped |-> {}]

Snapshot == [segs |-> segs, sums |-> sums, cur |-> cur]

NoSnapshot == [segs |-> << >>, sums |-> << >>, cur |-> 0]

\* The configuration before sim_init has read it.
NoSimConfig == [n_init |-> 0, sources |-> << >>]

\* bin.source_pcoords with no source region.
NoSources == << >>

\* The init weights bin.source_pcoords may hold, one per source region in the
\* order of its keys, each a multiple k / WeightDen of 1 / WeightDen.
SourceConfigs == UNION { [1..k -> 0..WeightDen] : k \in 1..MaxSources }

\* int(init_weight * n_init) for the init weight w / WeightDen (with WeightDen a
\* power of two the product is exact in floats).
NSegsOf(w, n_init) == (w * n_init) \div WeightDen

\* DefaultSimManager.sim_init, the loop of lines 101-122 from source icoord on:
\* a source before the last gets int(init_weight * n_init) segments, the last
\* n_init - len(segments); xrange(1, nsegs + 1) is empty when nsegs < 1.
RECURSIVE SourceSegments(_, _, _, _)
SourceSegments(sources, n_init, icoord, segments) ==
    IF icoord > Len(sources) THEN segments
    ELSE LET nsegs == IF icoord < Len(sources)
                      THEN NSegsOf(sources[icoord], n_init)
                      ELSE n_init - Len(segments)
         IN  SourceSegments(sources, n_init, icoord + 1,
                            IF nsegs < 1 THEN segments
                            ELSE segments \o Repeat(icoord, nsegs))

\* Lines 86-124: the initial segments for n_init particles and the given
\* sources.
InitialSegments(sources, n_init) ==
    IF sources = NoSources THEN Repeat(0, n_init)
    ELSE SourceSegments(sources, n_init, 1, << >>)

\* self.windowsize = 0.5, self.windowtype = 'fraction', and no
\* weed.max_window_size: the driver's window when none is configured.
DefaultWindow == [type |-> "fraction", num |-> 1, den |-> 2, max |-> {}]

\* q_incomplete_segments with the filter narrowed to FAILED: a RUNNING or
\* PREPARED segment is then not seen.
q_incomplete_segments_failed_only(n) ==
    { i \in SegIds(n) : segs[i].status = "FAILED" }

\* Segment.status != SEG_STATUS_COMPLETE, for one iteration
q_incomplete_segments(n) ==
    { i \in SegIds(n) : segs[i].status # "COMPLETE" }

\* data_manager.num_incomplete_segments(self.we_iter)
num_incomplete_segments(n) == Cardinality(q_incomplete_segments(n))

\* The while test with < in place of <=: the last iteration is not run.
run_sim_continues_strict == cur < max_iterations

\* while self.current_iteration <= max_iterations
run_sim_continues == cur <= max_iterations

\* DefaultSimManager.continue_simulation
continue_simulation == cur <= max_iterations

Raise(e) == pc' = "raised" /\ err' = e

\* dbsession.begin(): one more transaction of the session is active.
Begin(t) == t + 1

\* dbsession.commit(): the active transaction ends.
Commit(t) == t - 1

\* dbsession.rollback(): the active transaction ends.
Rollback(t) == t - 1

\* DefaultSimManager.runtime_init: start_wallclock is time.time() when
\* limits.max_wallclock is configured, None when it is not. WESimDriver reads no
\* wallclock limit.
StartWallclock ==
    IF variant = "default" /\ max_wallclock # None THEN Some(clock) ELSE None

\* -------------------------------------------------------------------- Init
Init ==
    /\ variant \in {"we_sim", "default"}
    /\ max_iterations \in 1..MaxIterations
    /\ max_wallclock \in {None, Some(1)}
    /\ start_wallclock = None
    /\ clock = 0
    /\ pc = "init"
    /\ caller = "init_sim"
    /\ cur = 0
    /\ ckpt = 0
    /\ we_iter = 0
    /\ segs = << >>
    /\ sums = << >>
    /\ resampled = NoResample
    /\ reweight_arg = FALSE
    /\ err = "none"
    /\ kills = 0
    /\ faults = 0
    /\ snap = NoSnapshot
    /\ txn = 0
    /\ sim_config = NoSimConfig
    /\ initial_segments = << >>
    /\ do_reweight = FALSE
    /\ reweight_period = 0
    /\ target_states = FALSE
    /\ n_iter = 1
    /\ bins = << >>
    /\ last_reweighting = None
    /\ binprobs = << >>
    /\ orig_binprobs = << >>
    /\ w_pc = "new"
    /\ w_err = "none"
    /\ diag = FALSE
    /\ bins0 = << >>
    /\ last0 = None
    /\ weed_group = "absent"
    /\ group0 = "absent"
    /\ window = DefaultWindow
    /\ averager = None
    /\ lock = "free"

\* ------------------------------------------------------- the environment
\* Time passes while the work manager propagates and while no run is going on;
\* the driver's own steps take no time.
Tick ==
    /\ pc \in {"propagating", "killed", "raised"}
    /\ clock < MaxClock
    /\ clock' = clock + 1
    /\ UNCHANGED << txn, variant, max_iterations, max_wallclock, start_wallclock,
                    pc, caller, cur, ckpt, we_iter, segs, sums, resampled,
                    reweight_arg, err, kills, faults, snap >>
    /\ UNCHANGED << sim_config, initial_segments >>
    /\ UNCHANGED weedvars

\* ------------------------------------------------- initialisation (iter 0)
\* WESimDriver.init_sim up to its call of run_we: the initial segments and the
\* summary of iteration 0 are committed in one transaction.
init_sim ==
    /\ pc = "init" /\ variant = "we_sim"
    /\ \E n_init \in 1..MaxSegs :
          /\ segs' = Repeat(InitialSegment, n_init)
          /\ sums' = (0 :> NewSummary(n_init))
    /\ pc' = "run_we"
    /\ caller' = "init_sim"
    /\ txn' = Commit(Begin(txn))
    /\ UNCHANGED << variant, max_iterations, max_wallclock, start_wallclock,
                    clock, cur, ckpt, we_iter, resampled, reweight_arg, err,
                    kills, faults, snap >>
    /\ UNCHANGED << sim_config, initial_segments >>
    /\ UNCHANGED weedvars

\* A statement of init_sim's transaction fails (lines 262-274): nothing catches
\* it, so init_sim raises with the transaction neither committed nor rolled
\* back, and nothing of it is stored.
init_sim_fails ==
    /\ pc = "init" /\ variant = "we_sim"
    /\ faults < MaxFaults
    /\ Raise("StoreError")
    /\ faults' = faults + 1
    /\ txn' = Begin(txn)
    /\ UNCHANGED << variant, max_iterations, max_wallclock, start_wallclock,
                    clock, caller, cur, ckpt, we_iter, segs, sums, resampled,
                    reweight_arg, kills, snap >>
    /\ UNCHANGED << sim_config, initial_segments >>
    /\ UNCHANGED weedvars

\* DefaultSimManager.sim_init up to its call of run_we(initial_segments): the
\* initial segments are made, with source regions when bin.source_pcoords has
\* some, and then line 124 asserts that there are n_init of them; only the
\* summary of iteration 0 is written, the initial segments stay in memory.
SimInit(configs) ==
    /\ pc = "init" /\ variant = "default"
    /\ \E n_init \in 1..MaxSegs, sources \in configs :
          /\ sim_config' = [n_init |-> n_init, sources |-> sources]
          /\ initial_segments' = InitialSegments(sources, n_init)
          /\ IF sources # NoSources /\ Len(initial_segments') # n_init
             THEN Raise("AssertionError") /\ sums' = sums
             ELSE /\ sums' = (0 :> NewSummary(Len(initial_segments')))
                  /\ pc' = "run_we"
                  /\ err' = err
    /\ we_iter' = 0
    /\ caller' = "init_sim"
    /\ UNCHANGED << txn, variant, max_iterations, max_wallclock,
                    start_wallclock, clock, cur, ckpt, segs, resampled,
                    reweight_arg, kills, faults, snap >>
    /\ UNCHANGED weedvars

\* sim_init with no source region configured.
sim_init == SimInit({NoSources})

\* sim_init with source regions.
sim_init_sources == SimInit(SourceConfigs)

\* The end of the initialisation and the start of a run: the driver's state is
\* saved and runtime_init reads the limits.
runtime_init ==
    /\ pc = "inited"
    /\ ckpt' = cur
    /\ start_wallclock' = StartWallclock
    /\ pc' = "loop"
    /\ caller' = "run_sim"
    /\ snap' = NoSnapshot
    /\ UNCHANGED << txn, variant, max_iterations, max_wallclock, clock, cur,
                    we_iter, segs, sums, resampled, reweight_arg, err,
                    kills, faults >>
    /\ UNCHANGED << sim_config, initial_segments >>
    /\ UNCHANGED weedvars

\* --------------------------------------------------------------- the loop
\* WESimDriver.run_sim: the while test; its else branch logs that the maximum
\* number of iterations is reached.
run_sim_test ==
    /\ pc = "loop" /\ variant = "we_sim"
    /\ pc' = IF run_sim_continues THEN "open" ELSE "done"
    /\ UNCHANGED << txn, variant, max_iterations, max_wallclock, start_wallclock,
                    clock, caller, cur, ckpt, we_iter, segs, sums, resampled,
                    reweight_arg, err, kills, faults, snap >>
    /\ UNCHANGED << sim_config, initial_segments >>
    /\ UNCHANGED weedvars

\* The loop of the sim master around DefaultSimManager: it asks
\* continue_simulation before each iteration.
sim_master_test ==
    /\ pc = "loop" /\ variant = "default"
    /\ pc' = IF continue_simulation THEN "open" ELSE "done"
    /\ UNCHANGED << txn, variant, max_iterations, max_wallclock, start_wallclock,
                    clock, caller, cur, ckpt, we_iter, segs, sums, resampled,
                    reweight_arg, err, kills, faults, snap >>
    /\ UNCHANGED << sim_config, initial_segments >>
    /\ UNCHANGED weedvars

\* WESimDriver.run_sim, opening the iteration: starttime is set when it is None.
run_sim_open ==
    /\ pc = "open" /\ variant = "we_sim"
    /\ sums' = [sums EXCEPT ![cur].starttime =
                    IF @ = None THEN Some(clock) ELSE @]
    /\ pc' = "count"
    /\ UNCHANGED << txn, variant, max_iterations, max_wallclock, start_wallclock,
                    clock, caller, cur, ckpt, we_iter, segs, resampled,
                    reweight_arg, err, kills, faults, snap >>
    /\ UNCHANGED << sim_config, initial_segments >>
    /\ UNCHANGED weedvars

\* DefaultSimManager.prepare_iteration: the summary of the current iteration is
\* fetched, its starttime is set to now and it is written back.
prepare_iteration ==
    /\ pc = "open" /\ variant = "default"
    /\ we_iter' = cur
    /\ sums' = [sums EXCEPT ![cur].starttime = Some(clock)]
    /\ pc' = "count"
    /\ UNCHANGED << txn, variant, max_iterations, max_wallclock, start_wallclock,
                    clock, caller, cur, ckpt, segs, resampled, reweight_arg,
                    err, kills, faults, snap >>
    /\ UNCHANGED << sim_config, initial_segments >>
    /\ UNCHANGED weedvars

\* propagate_segments without the test on n_inc: the work manager is asked to
\* propagate in every pass of the loop.
propagate_segments_always ==
    /\ pc = "count"
    /\ segs' = [i \in DOMAIN segs |->
                  IF i \in q_incomplete_segments(cur)
                  THEN [segs[i] EXCEPT !.status = "RUNNING"]
                  ELSE segs[i]]
    /\ pc' = "propagating"
    /\ caller' = "run_sim"
    /\ UNCHANGED << txn, variant, max_iterations, max_wallclock, start_wallclock,
                    clock, cur, ckpt, we_iter, sums, resampled, reweight_arg,
                    err, kills, faults, snap >>
    /\ UNCHANGED << sim_config, initial_segments >>
    /\ UNCHANGED weedvars

\* WESimDriver.run_sim: n_inc is counted; propagate_segments is called when it
\* is positive, and the work manager takes the incomplete segments.
propagate_segments ==
    /\ pc = "count"
    /\ IF Cardinality(q_incomplete_segments(cur)) > 0
       THEN /\ segs' = [i \in DOMAIN segs |->
                          IF i \in q_incomplete_segments(cur)
                          THEN [segs[i] EXCEPT !.status = "RUNNING"]
                          ELSE segs[i]]
            /\ pc' = "propagating"
       ELSE /\ segs' = segs
            /\ pc' = "run_we"
    /\ caller' = "run_sim"
    /\ UNCHANGED << txn, variant, max_iterations, max_wallclock, start_wallclock,
                    clock, cur, ckpt, we_iter, sums, resampled, reweight_arg,
                    err, kills, faults, snap >>
    /\ UNCHANGED << sim_config, initial_segments >>
    /\ UNCHANGED weedvars

\* The outcomes the work manager may leave a dispatched segment in.
PropagationOutcomes == {"COMPLETE", "FAILED", "RUNNING"}

\* propagate_segments returns: every dispatched segment has one of `outcomes`.
PropagateReturn(outcomes) ==
    /\ pc = "propagating"
    /\ \E f \in [q_incomplete_segments(cur) -> outcomes] :
          segs' = [i \in DOMAIN segs |->
                     IF i \in DOMAIN f
                     THEN [segs[i] EXCEPT !.status = f[i],
                                          !.pcoord = IF f[i] = "COMPLETE"
                                                     THEN "SET" ELSE @]
                     ELSE segs[i]]
    /\ pc' = "run_we"
    /\ UNCHANGED << txn, variant, max_iterations, max_wallclock, start_wallclock,
                    clock, caller, cur, ckpt, we_iter, sums, resampled,
                    reweight_arg, err, kills, faults, snap >>
    /\ UNCHANGED << sim_config, initial_segments >>
    /\ UNCHANGED weedvars

propagate_return == PropagateReturn(PropagationOutcomes)

propagate_return_complete == PropagateReturn({"COMPLETE"})

\* ------------------------------------------------------------------ run_we
\* WESimDriver.run_we, its entry: PropagationIncompleteError when a segment of
\* the current iteration is not COMPLETE.
run_we_check ==
    /\ pc = "run_we" /\ variant = "we_sim"
    /\ IF Cardinality(q_incomplete_segments(cur)) # 0
       THEN Raise("PropagationIncompleteError") /\ snap' = snap
       ELSE pc' = "we_t1" /\ err' = err /\ snap' = Snapshot
    /\ UNCHANGED << txn, variant, max_iterations, max_wallclock, start_wallclock,
                    clock, caller, cur, ckpt, we_iter, segs, sums, resampled,
                    reweight_arg, kills, faults >>
    /\ UNCHANGED << sim_config, initial_segments >>
    /\ UNCHANGED weedvars

\* DefaultSimManager.run_we, its entry; a caller of the loop may pass a
\* reweight array, sim_init passes none.
default_run_we_check ==
    /\ pc = "run_we" /\ variant = "default"
    /\ IF num_incomplete_segments(we_iter) # 0
       THEN /\ Raise("PropagationIncompleteError")
            /\ UNCHANGED << snap, reweight_arg >>
       ELSE /\ pc' = "we_resample" /\ err' = err /\ snap' = Snapshot
            /\ reweight_arg' \in IF caller = "init_sim" THEN {FALSE} ELSE BOOLEAN
    /\ UNCHANGED << txn, variant, max_iterations, max_wallclock, start_wallclock,
                    clock, caller, cur, ckpt, we_iter, segs, sums, resampled,
                    kills, faults >>
    /\ UNCHANGED << sim_config, initial_segments >>
    /\ UNCHANGED weedvars

\* A statement of the first transaction fails (lines 173-178): nothing catches
\* it, so run_we raises with the transaction neither committed nor rolled back.
run_we_close_iter_fails ==
    /\ pc = "we_t1" /\ caller = "run_sim"
    /\ faults < MaxFaults
    /\ Raise("StoreError")
    /\ faults' = faults + 1
    /\ txn' = Begin(txn)
    /\ UNCHANGED << variant, max_iterations, max_wallclock, start_wallclock,
                    clock, caller, cur, ckpt, we_iter, segs, sums, resampled,
                    reweight_arg, kills, snap >>
    /\ UNCHANGED << sim_config, initial_segments >>
    /\ UNCHANGED weedvars

\* run_we_close_iter with the summary of the next iteration added in the first
\* transaction, ahead of the resampling.
run_we_close_iter_opens_next ==
    /\ pc = "we_t1"
    /\ sums' = [sums EXCEPT ![cur].endtime = Some(clock)]
                 @@ ((cur + 1) :> NewSummary(0))
    /\ pc' = "we_resample"
    /\ txn' = Commit(Begin(txn))
    /\ UNCHANGED << variant, max_iterations, max_wallclock, start_wallclock,
                    clock, caller, cur, ckpt, we_iter, segs, resampled,
                    reweight_arg, err, kills, faults, snap >>
    /\ UNCHANGED << sim_config, initial_segments >>
    /\ UNCHANGED weedvars

\* WESimDriver.run_we, its first transaction: the summary of the current
\* iteration gets its endtime (and the summed times), and is committed.
run_we_close_iter ==
    /\ pc = "we_t1"
    /\ sums' = [sums EXCEPT ![cur].endtime = Some(clock)]
    /\ pc' = "we_resample"
    /\ txn' = Commit(Begin(txn))
    /\ UNCHANGED << variant, max_iterations, max_wallclock, start_wallclock,
                    clock, caller, cur, ckpt, we_iter, segs, resampled,
                    reweight_arg, err, kills, faults, snap >>
    /\ UNCHANGED << sim_config, initial_segments >>
    /\ UNCHANGED weedvars

\* we_driver.run_we(current_particles): the resampler returns the particles of
\* the next iteration, records the merged and the escaped particles, and
\* advances its current_iteration. WESimDriver reads neither set.
WeDriverRunWe(P, recorded) ==
    /\ pc = "we_resample"
    /\ \E ps \in ParticleSeqs(P) :
       \E m \in SUBSET recorded :
       \E e \in SUBSET (recorded \ m) :
          resampled' = [n |-> Len(ps), particles |-> ps,
                        merged |-> m, escaped |-> e]
    /\ cur' = cur + 1
    /\ pc' = IF variant = "we_sim" THEN "we_t2"
             ELSE IF reweight_arg THEN "we_reweight" ELSE "dm_update"
    /\ UNCHANGED << txn, variant, max_iterations, max_wallclock, start_wallclock,
                    clock, caller, ckpt, we_iter, segs, sums, reweight_arg,
                    err, kills, faults, snap >>
    /\ UNCHANGED << sim_config, initial_segments >>
    /\ UNCHANGED weedvars

\* The resampling of the runs that do not look at the lineage: plain particles,
\* and merged and escaped particles only where they are read.
we_driver_run_we ==
    WeDriverRunWe({PlainParticle},
                  IF variant = "we_sim" THEN {} ELSE SegIds(cur))

\* The resampling with every particle it may return and every set of merged
\* and escaped particles it may record.
we_driver_run_we_lineage ==
    WeDriverRunWe(Particles(SegIds(cur)), SegIds(cur))

\* WESimDriver.run_we, "Convert particles to new DB segments": the segment of
\* the new iteration made from particle p. No endpoint_type and no data are
\* given; p_parent is the stored segment of the particle's p_parent.
NewSegment(p) ==
    [we_iter |-> cur, status |-> "PREPARED", endpoint_type |-> "UNSET",
     p_parent |-> p.p_parent, initial_region |-> "ABSENT",
     weight |-> p.weight, pcoord |-> "NONE"]

\* default_NewSegment without the test on particles_escaped: the particle's
\* p_parent always becomes the segment's.
default_NewSegment_keeps_parent(p) ==
    [we_iter |-> cur, status |-> "PREPARED", endpoint_type |-> "CONTINUATION",
     p_parent |-> IF cur - 1 > 0 THEN p.p_parent ELSE None,
     initial_region |-> IF p.initial_region THEN "SET" ELSE "ABSENT",
     weight |-> p.weight, pcoord |-> "NONE"]

\* The initial_region of the particle made from stored segment i: the value of
\* the segment's data key when it has one, else the particle's false default.
ParentInitialRegion(i) ==
    IF segs[i].initial_region = "SET" THEN "SET" ELSE "EMPTY"

\* DefaultSimManager.run_we, "Convert particles (phase space points) to new
\* propagation segments": when the iteration resampled is not the initial one a
\* particle's p_parent becomes the segment's unless it escaped, and then the
\* segment gets the particle's initial_region or else its parent's; a particle
\* with no p_parent, and every particle of the initial resampling, gives its
\* initial_region when it is true.
default_NewSegment(p) ==
    LET own == IF p.initial_region THEN "SET" ELSE "ABSENT"
        base == [we_iter |-> cur, status |-> "PREPARED",
                 endpoint_type |-> "CONTINUATION", p_parent |-> None,
                 initial_region |-> own, weight |-> p.weight,
                 pcoord |-> "NONE"]
    IN  IF cur - 1 > 0 /\ p.p_parent # None
        THEN IF p.p_parent \cap resampled.escaped = {}
             THEN [base EXCEPT !.p_parent = p.p_parent]
             ELSE [base EXCEPT !.initial_region =
                      IF p.initial_region THEN "SET"
                      ELSE ParentInitialRegion(CHOOSE i \in p.p_parent : TRUE)]
        ELSE base

\* new_segments, in the order of the particles.
NewSegments ==
    [k \in DOMAIN resampled.particles |->
        IF variant = "we_sim" THEN NewSegment(resampled.particles[k])
        ELSE default_NewSegment(resampled.particles[k])]
\* Where run_we returns to: init_sim / sim_init, or the loop.
AfterRunWe ==
    IF caller = "init_sim" THEN "inited"
    ELSE IF variant = "we_sim" THEN "save" ELSE "finalize"

\* WESimDriver.run_we, its second transaction: the new segments and the summary
\* of the new iteration are added and flushed, then committed. WESimIter's
\* primary key is the iteration (query(WESimIter).get([current_iteration])), so
\* the flush of a summary whose iteration is already stored fails; the except
\* branch rolls the transaction back and raises again.
run_we_commit ==
    /\ pc = "we_t2"
    /\ IF cur \in DOMAIN sums
       THEN /\ Raise("StoreError")
            /\ UNCHANGED << segs, sums >>
       ELSE /\ segs' = segs \o NewSegments
            /\ sums' = sums @@ (cur :> NewSummary(resampled.n))
            /\ pc' = AfterRunWe
            /\ err' = err
    /\ txn' = IF cur \in DOMAIN sums THEN Rollback(Begin(txn))
              ELSE Commit(Begin(txn))
    /\ UNCHANGED << variant, max_iterations, max_wallclock, start_wallclock,
                    clock, caller, cur, ckpt, we_iter, resampled, reweight_arg,
                    kills, faults, snap >>
    /\ UNCHANGED << sim_config, initial_segments >>
    /\ UNCHANGED weedvars

\* run_we_rollback without the raise: after the rollback run_we returns as if
\* it had committed.
run_we_rollback_swallows ==
    /\ pc = "we_t2" /\ caller = "run_sim"
    /\ faults < MaxFaults
    /\ pc' = "save"
    /\ faults' = faults + 1
    /\ txn' = Rollback(Begin(txn))
    /\ UNCHANGED << variant, max_iterations, max_wallclock, start_wallclock,
                    clock, caller, cur, ckpt, we_iter, segs, sums, resampled,
                    reweight_arg, err, kills, snap >>
    /\ UNCHANGED << sim_config, initial_segments >>
    /\ UNCHANGED weedvars

\* A write of the second transaction fails: rollback, and the error is raised.
run_we_rollback ==
    /\ pc = "we_t2" /\ caller = "run_sim"
    /\ faults < MaxFaults
    /\ Raise("StoreError")
    /\ faults' = faults + 1
    /\ txn' = Rollback(Begin(txn))
    /\ UNCHANGED << variant, max_iterations, max_wallclock, start_wallclock,
                    clock, caller, cur, ckpt, we_iter, segs, sums, resampled,
                    reweight_arg, kills, snap >>
    /\ UNCHANGED << sim_config, initial_segments >>
    /\ UNCHANGED weedvars

\* DefaultSimManager.run_we, "Reweight, if requested": the bins of the driver
\* are reweighted (see default_reweight below for the bins); nothing is stored.
default_run_we_reweight ==
    /\ pc = "we_reweight"
    /\ pc' = "dm_update"
    /\ UNCHANGED << txn, variant, max_iterations, max_wallclock, start_wallclock,
                    clock, caller, cur, ckpt, we_iter, segs, sums, resampled,
                    reweight_arg, err, kills, faults, snap >>
    /\ UNCHANGED << sim_config, initial_segments >>
    /\ UNCHANGED weedvars

\* MarkedEndpoint that marks every segment that did not escape as merged.
MarkedEndpoint_all_merged(i) ==
    IF i \in resampled.escaped THEN "RECYCLED" ELSE "MERGED"

\* The endpoint type run_we gives segment i of the finished iteration.
MarkedEndpoint(i) ==
    IF i \in resampled.escaped THEN "RECYCLED"
    ELSE IF i \in resampled.merged THEN "MERGED"
    ELSE segs[i].endpoint_type

\* DefaultSimManager.run_we, "Mark old segments as merged/recycled/continued":
\* skipped for the initial segments, else written with update_segments.
default_update_segments ==
    /\ pc = "dm_update"
    /\ segs' = IF caller = "init_sim" THEN segs
               ELSE [i \in DOMAIN segs |->
                       IF segs[i].we_iter = we_iter
                       THEN [segs[i] EXCEPT !.endpoint_type = MarkedEndpoint(i)]
                       ELSE segs[i]]
    /\ pc' = "dm_create_iter"
    /\ UNCHANGED << txn, variant, max_iterations, max_wallclock, start_wallclock,
                    clock, caller, cur, ckpt, we_iter, sums, resampled,
                    reweight_arg, err, kills, faults, snap >>
    /\ UNCHANGED << sim_config, initial_segments >>
    /\ UNCHANGED weedvars

\* data_manager.create_we_sim_iter(we_iter): the summary of the new iteration;
\* as in WESimDriver, a summary whose iteration is already stored is refused.
default_create_we_sim_iter ==
    /\ pc = "dm_create_iter"
    /\ IF cur \in DOMAIN sums
       THEN Raise("StoreError") /\ sums' = sums
       ELSE /\ sums' = sums @@ (cur :> NewSummary(resampled.n))
            /\ pc' = "dm_create_segs"
            /\ err' = err
    /\ UNCHANGED << txn, variant, max_iterations, max_wallclock, start_wallclock,
                    clock, caller, cur, ckpt, we_iter, segs, resampled,
                    reweight_arg, kills, faults, snap >>
    /\ UNCHANGED << sim_config, initial_segments >>
    /\ UNCHANGED weedvars

\* data_manager.create_segments(we_iter, new_segments); run_we returns.
default_create_segments ==
    /\ pc = "dm_create_segs"
    /\ segs' = segs \o NewSegments
    /\ pc' = AfterRunWe
    /\ UNCHANGED << txn, variant, max_iterations, max_wallclock, start_wallclock,
                    clock, caller, cur, ckpt, we_iter, sums, resampled,
                    reweight_arg, err, kills, faults, snap >>
    /\ UNCHANGED << sim_config, initial_segments >>
    /\ UNCHANGED weedvars

\* A call of the data manager in DefaultSimManager.run_we fails: the error
\* leaves run_we, which has no handler and undoes nothing.
default_write_fails ==
    /\ pc \in {"dm_update", "dm_create_iter", "dm_create_segs"}
    /\ caller = "run_sim"
    /\ faults < MaxFaults
    /\ Raise("StoreError")
    /\ faults' = faults + 1
    /\ UNCHANGED << txn, variant, max_iterations, max_wallclock, start_wallclock,
                    clock, caller, cur, ckpt, we_iter, segs, sums, resampled,
                    reweight_arg, kills, snap >>
    /\ UNCHANGED << sim_config, initial_segments >>
    /\ UNCHANGED weedvars

\* ------------------------------------------------------------ checkpointing
\* WESimDriver.save_state (the driver is pickled), then close_dbsession.
save_state ==
    /\ pc = "save"
    /\ ckpt' = cur
    /\ pc' = "loop"
    /\ snap' = NoSnapshot
    /\ UNCHANGED << txn, variant, max_iterations, max_wallclock, start_wallclock,
                    clock, caller, cur, we_iter, segs, sums, resampled,
                    reweight_arg, err, kills, faults >>
    /\ UNCHANGED << sim_config, initial_segments >>
    /\ UNCHANGED weedvars

\* DefaultSimManager.finalize_iteration: the held summary gets its endtime and
\* is written, then save_sim_state.
finalize_iteration ==
    /\ pc = "finalize"
    /\ sums' = [sums EXCEPT ![we_iter].endtime = Some(clock)]
    /\ ckpt' = cur
    /\ pc' = "loop"
    /\ snap' = NoSnapshot
    /\ UNCHANGED << txn, variant, max_iterations, max_wallclock, start_wallclock,
                    clock, caller, cur, we_iter, segs, resampled, reweight_arg,
                    err, kills, faults >>
    /\ UNCHANGED << sim_config, initial_segments >>
    /\ UNCHANGED weedvars

\* The positions of a running loop.
Running == {"loop", "open", "count", "propagating", "run_we", "we_t1",
            "we_resample", "we_t2", "we_reweight", "dm_update",
            "dm_create_iter", "dm_create_segs", "save", "finalize"}

\* The process is killed: what it held in memory is lost, the store and the
\* state file stay as they are.
Kill ==
    /\ pc \in Running /\ caller = "run_sim"
    /\ kills < MaxKills
    /\ pc' = "killed"
    /\ resampled' = NoResample
    /\ reweight_arg' = FALSE
    /\ snap' = NoSnapshot
    /\ kills' = kills + 1
    /\ txn' = 0
    /\ UNCHANGED << variant, max_iterations, max_wallclock, start_wallclock,
                    clock, caller, cur, ckpt, we_iter, segs, sums, err, faults >>
    /\ UNCHANGED << sim_config, initial_segments >>
    /\ UNCHANGED weedvars

\* WESimDriver.restore_state / DefaultSimManager.load_sim_state at the start of
\* a new run: the driver is the one of the state file.
restore_state ==
    /\ pc \in {"killed", "raised"} /\ caller = "run_sim"
    /\ cur' = ckpt
    /\ err' = "none"
    /\ resampled' = NoResample
    /\ reweight_arg' = FALSE
    /\ start_wallclock' = StartWallclock
    /\ pc' = "loop"
    /\ snap' = NoSnapshot
    /\ txn' = 0
    /\ UNCHANGED << variant, max_iterations, max_wallclock, clock, caller,
                    ckpt, we_iter, segs, sums, kills, faults >>
    /\ UNCHANGED << sim_config, initial_segments >>
    /\ UNCHANGED weedvars

\* The steps of a run in which nothing fails and nobody interferes.
LoopStep ==
    \/ init_sim
    \/ sim_init
    \/ runtime_init
    \/ run_sim_test
    \/ sim_master_test
    \/ run_sim_open
    \/ prepare_iteration
    \/ propagate_segments
    \/ run_we_check
    \/ default_run_we_check
    \/ run_we_close_iter
    \/ we_driver_run_we
    \/ run_we_commit
    \/ default_run_we_reweight
    \/ default_update_segments
    \/ default_create_we_sim_iter
    \/ default_create_segments
    \/ save_state
    \/ finalize_iteration

\* ============================================================ reweighting
\* A bin is its weight, in units of 1/Unit, and the shares its particles have
\* of that weight; an empty bin has no particle and weight 0.
NBins == 2
Unit == 4
MaxNIter == 3
MaxPeriod == 2
WindowDen == 2
MaxWindow == 2

EmptyBin == [weight |-> 0, shares |-> << >>]

BinStates ==
    {EmptyBin} \cup
    { [weight |-> w, shares |-> sh] : w \in 1..Unit, sh \in {<<1>>, <<1, 3>>} }

RECURSIVE SumSeq(_)
SumSeq(q) == IF q = << >> THEN 0 ELSE q[1] + SumSeq(Tail(q))

Weights(bs) == [i \in DOMAIN bs |-> bs[i].weight]

\* The binnings a resampling leaves: the bin weights sum to 1.
Binnings == { bs \in [1..NBins -> BinStates] : SumSeq(Weights(bs)) = Unit }

\* The vectors probAdjustEquil may leave in binprobs.
Proposals == [1..NBins -> 0..Unit]

\* len(bin), summed over the bins
NParticles(bs) == SumSeq([i \in DOMAIN bs |-> Len(bs[i].shares)])

\* The weight of each particle of a bin, as << numerator, denominator >>.
ParticleWeights(b) ==
    [k \in DOMAIN b.shares |-> << b.weight * b.shares[k], SumSeq(b.shares) >>]

\* Bin.reweight(newprob): the particles are scaled so that the bin weighs newprob.
BinReweight(b, newprob) == [b EXCEPT !.weight = newprob]

\* Bin.clear(): the bin loses its particles.
BinClear(b) == EmptyBin

\* Bin.renorm(new_weight): as reweight.
BinRenorm(b, new_weight) == [b EXCEPT !.weight = new_weight]

\* The negation of what line 135 asserts: a bin of weight > 0 is given 0.
PopulatedToZero(orig, new) ==
    \E i \in DOMAIN orig : orig[i] > 0 /\ new[i] = 0

\* z2nz_mask that finds no bin: the else branch of line 143 is always taken.
z2nz_mask_none(orig, new) == {}

\* z2nz_mask: the empty bins that are given a weight > 0.
z2nz_mask(orig, new) ==
    { i \in DOMAIN orig : orig[i] = 0 /\ new[i] > 0 }

\* abs(1 - sum of the bin weights) < EPS * number of particles. The weights are
\* multiples of 1/Unit, far above EPS, so the sum must be exactly 1; with no
\* particle the bound is 0 and nothing is below it.
SumsToOne(bs) == SumSeq(Weights(bs)) = Unit /\ NParticles(bs) > 0

\* The 'weed' group of an iteration group before prepare_new_iteration has run
\* for the iteration in this run: none, or the one an earlier run left (lines
\* 93-96 delete it when it is there).
IterGroupStates == {"absent", "old"}

\* The smaller and the larger of two numbers.
Min(a, b) == IF a <= b THEN a ELSE b

Max(a, b) == IF a >= b THEN a ELSE b

\* The configured weed.window_size strings and weed.max_window_size values:
\* a string with a '.' is a fraction num/WindowDen, any other an integer.
FractionWindows(maxes) ==
    [type : {"fraction"}, num : 0..(WindowDen + 1), den : {WindowDen},
     max : maxes]

FixedWindows(maxes) ==
    [type : {"fixed"}, num : (0 - 1)..MaxWindow, den : {1}, max : maxes]

WindowConfigs ==
    LET maxes == {None} \cup {Some(m) : m \in 1..MaxWindow}
    IN  FractionWindows(maxes) \cup FixedWindows(maxes)

\* Line 40: the constructor refuses a fractional window size outside (0, 1].
FractionOutOfRange(w) ==
    w.type = "fraction" /\ (w.num <= 0 \/ w.num > w.den)

\* WEEDDriver.__init__: the options are read; we_driver.target_states is the
\* system's. ValueError when the fractional window size is out of range.
WeedInit(windows) ==
    /\ w_pc = "new"
    /\ do_reweight' \in BOOLEAN
    /\ reweight_period' \in 0..MaxPeriod
    /\ target_states' \in BOOLEAN
    /\ bins' \in Binnings
    /\ window' \in windows
    /\ IF FractionOutOfRange(window')
       THEN w_pc' = "raised" /\ w_err' = "ValueError"
       ELSE w_pc' = "idle" /\ w_err' = w_err
    /\ UNCHANGED << n_iter, last_reweighting, binprobs, orig_binprobs,
                    diag, bins0, last0 >>
    /\ weed_group' \in IterGroupStates
    /\ UNCHANGED << group0, averager, lock >>
    /\ UNCHANGED loopvars

\* The constructor with no weed.window_size and no weed.max_window_size.
weed_init == WeedInit({DefaultWindow})

\* The constructor with every window configuration.
weed_init_window == WeedInit(WindowConfigs)

\* The sim manager finishes an iteration: the resampling leaves a new binning
\* for the next one.
next_iteration ==
    /\ w_pc \in {"idle", "returned", "reweighted"}
    /\ n_iter < MaxNIter
    /\ n_iter' = n_iter + 1
    /\ bins' \in Binnings
    /\ w_pc' = "idle"
    /\ binprobs' = << >> /\ orig_binprobs' = << >>
    /\ diag' = FALSE
    /\ UNCHANGED << do_reweight, reweight_period, target_states,
                    last_reweighting, w_err, bins0, last0 >>
    /\ weed_group' \in IterGroupStates
    /\ averager' = None
    /\ UNCHANGED << group0, window, lock >>
    /\ UNCHANGED loopvars

\* The attribute as prepare_new_iteration reads it: attrs.get(..., 0).
LastReweighting == IF last_reweighting = None THEN 0
                   ELSE CHOOSE x \in last_reweighting : TRUE

\* reweighting_disabled with the test on the target states left out.
reweighting_disabled_sinks_ignored == ~do_reweight

\* Lines 77-84: target states (sinks) are present, or reweighting is not
\* requested.
reweighting_disabled == (target_states /\ do_reweight) \/ ~do_reweight

\* not_time_to_reweight counted from the start of the simulation instead of
\* from the last reweighting.
not_time_to_reweight_since_start == n_iter < reweight_period

\* Line 108: not time to reweight yet.
not_time_to_reweight == n_iter - LastReweighting < reweight_period

\* WEEDDriver.prepare_new_iteration, lines 74-91: it returns when sinks are
\* present or reweighting is off; else it takes data_manager.lock, waiting
\* while another holds it.
weed_enter ==
    /\ w_pc = "idle"
    /\ bins0' = bins /\ last0' = last_reweighting /\ group0' = weed_group
    /\ IF reweighting_disabled
       THEN w_pc' = "returned" /\ lock' = lock
       ELSE lock = "free" /\ lock' = "weed" /\ w_pc' = "storage"
    /\ UNCHANGED << do_reweight, reweight_period, target_states, n_iter, bins,
                    last_reweighting, binprobs, orig_binprobs, w_err, diag >>
    /\ UNCHANGED << weed_group, window, averager >>
    /\ UNCHANGED loopvars

\* Lines 92-113, under the lock: the iteration's 'weed' group is deleted when
\* it is there and created with its six datasets, and last_reweighting is
\* read; the lock is released, and the call returns when it is not yet time to
\* reweight.
weed_storage ==
    /\ w_pc = "storage"
    /\ weed_group' = "created"
    /\ lock' = "free"
    /\ w_pc' = IF not_time_to_reweight THEN "returned" ELSE "rates"
    /\ UNCHANGED << do_reweight, reweight_period, target_states, n_iter, bins,
                    last_reweighting, binprobs, orig_binprobs, w_err, diag,
                    bins0, last0 >>
    /\ UNCHANGED << group0, window, averager >>
    /\ UNCHANGED loopvars

\* int(n_iter * self.windowsize) for a fractional window size (a positive
\* multiple of 1/den; with den a power of two the product is exact in floats).
FractionOf(n, w) == (n * w.num) \div w.den

\* get_rates, lines 60-66: the effective window size at iteration n.
eff_windowsize(n, w) ==
    IF w.type = "fraction"
    THEN IF w.max # None
         THEN Min(CHOOSE m \in w.max : TRUE, FractionOf(n, w))
         ELSE FractionOf(n, w)
    ELSE Min(n, w.num)

\* get_rates, lines 68-70: what averager.calculate is called with.
get_rates(n, w) ==
    [eff |-> eff_windowsize(n, w),
     start |-> Max(1, n - eff_windowsize(n, w)),
     stop |-> n + 1]

\* Lines 115-117: get_rates, then data_manager.flushing_lock() is taken (the
\* data manager's lock, with a flush when it is released).
weed_rates ==
    /\ w_pc = "rates"
    /\ averager' = Some(get_rates(n_iter, window))
    /\ lock = "free" /\ lock' = "weed"
    /\ w_pc' = "write"
    /\ UNCHANGED << do_reweight, reweight_period, target_states, n_iter, bins,
                    last_reweighting, binprobs, orig_binprobs, w_err, diag,
                    bins0, last0 >>
    /\ UNCHANGED << weed_group, group0, window >>
    /\ UNCHANGED loopvars

\* weed_write without lines 118-123: the averager's results are left unwritten
\* and the datasets stay empty.
weed_write_unwritten ==
    /\ w_pc = "write"
    /\ binprobs' = Weights(bins)
    /\ orig_binprobs' = Weights(bins)
    /\ lock' = "free"
    /\ w_pc' = "adjust"
    /\ UNCHANGED << do_reweight, reweight_period, target_states, n_iter, bins,
                    last_reweighting, w_err, diag, bins0, last0 >>
    /\ UNCHANGED << weed_group, group0, window, averager >>
    /\ UNCHANGED loopvars

\* Lines 118-126, under the lock: the datasets are written, binprobs is read
\* from the bins with its copy orig_binprobs, and the lock is released.
weed_write ==
    /\ w_pc = "write"
    /\ weed_group' = "written"
    /\ binprobs' = Weights(bins)
    /\ orig_binprobs' = Weights(bins)
    /\ lock' = "free"
    /\ w_pc' = "adjust"
    /\ UNCHANGED << do_reweight, reweight_period, target_states, n_iter, bins,
                    last_reweighting, w_err, diag, bins0, last0 >>
    /\ UNCHANGED << group0, window, averager >>
    /\ UNCHANGED loopvars

\* Another holder of data_manager.lock takes it.
other_acquire ==
    /\ w_pc # "new"
    /\ lock = "free" /\ lock' = "other"
    /\ UNCHANGED << do_reweight, reweight_period, target_states, n_iter, bins,
                    last_reweighting, binprobs, orig_binprobs, w_pc, w_err,
                    diag, bins0, last0, weed_group, group0, window, averager >>
    /\ UNCHANGED loopvars

\* The other holder updates the global last_reweighting attribute, or leaves it,
\* and releases the lock.
other_release ==
    /\ lock = "other" /\ lock' = "free"
    /\ last_reweighting' \in {last_reweighting} \cup {Some(k) : k \in 0..n_iter}
    /\ UNCHANGED << do_reweight, reweight_period, target_states, n_iter, bins,
                    binprobs, orig_binprobs, w_pc, w_err, diag, bins0, last0,
                    weed_group, group0, window, averager >>
    /\ UNCHANGED loopvars

\* probAdjustEquil(binprobs, ...) rewrites binprobs in place.
weed_probAdjustEquil ==
    /\ w_pc = "adjust"
    /\ binprobs' \in Proposals
    /\ w_pc' = "gates"
    /\ UNCHANGED << do_reweight, reweight_period, target_states, n_iter, bins,
                    last_reweighting, orig_binprobs, w_err, diag, bins0, last0 >>
    /\ UNCHANGED << weed_group, group0, window, averager, lock >>
    /\ UNCHANGED loopvars

\* Lines 134-147: the assertion on populated bins, then either the status
\* message that an empty bin would get a weight, or bin.reweight for every bin
\* and the update of last_reweighting.
weed_gates ==
    /\ w_pc = "gates"
    /\ IF PopulatedToZero(orig_binprobs, binprobs)
       THEN /\ w_pc' = "raised" /\ w_err' = "G1"
            /\ UNCHANGED << bins, last_reweighting, diag >>
       ELSE IF z2nz_mask(orig_binprobs, binprobs) # {}
       THEN /\ diag' = TRUE
            /\ w_pc' = "final"
            /\ UNCHANGED << bins, last_reweighting, w_err >>
       ELSE /\ bins' = [i \in DOMAIN bins |-> BinReweight(bins[i], binprobs[i])]
            /\ last_reweighting' = Some(n_iter)
            /\ w_pc' = "final"
            /\ UNCHANGED << diag, w_err >>
    /\ UNCHANGED << do_reweight, reweight_period, target_states, n_iter,
                    binprobs, orig_binprobs, bins0, last0 >>
    /\ UNCHANGED << weed_group, group0, window, averager, lock >>
    /\ UNCHANGED loopvars

\* Lines 149-150: the closing assertion that the bin weights sum to 1.
weed_final_assert ==
    /\ w_pc = "final"
    /\ IF SumsToOne(bins)
       THEN w_pc' = "returned" /\ w_err' = w_err
       ELSE w_pc' = "raised" /\ w_err' = "G3"
    /\ UNCHANGED << do_reweight, reweight_period, target_states, n_iter, bins,
                    last_reweighting, binprobs, orig_binprobs, diag, bins0,
                    last0 >>
    /\ UNCHANGED << weed_group, group0, window, averager, lock >>
    /\ UNCHANGED loopvars

\* DefaultSimManager.run_we, "Reweight, if requested", for one bin.
RunWeReweightBin(b, new_weight) ==
    IF new_weight = 0 THEN BinClear(b)
    ELSE IF b.weight = 0 THEN b
    ELSE BinRenorm(b, new_weight)

\* DefaultSimManager.run_we called with a reweight array of the bins' shape.
default_reweight ==
    /\ w_pc = "idle"
    /\ bins0' = bins /\ last0' = last_reweighting
    /\ \E reweight \in Proposals :
          /\ binprobs' = reweight
          /\ bins' = [i \in DOMAIN bins |-> RunWeReweightBin(bins[i], reweight[i])]
    /\ orig_binprobs' = Weights(bins)
    /\ w_pc' = "reweighted"
    /\ UNCHANGED << do_reweight, reweight_period, target_states, n_iter,
                    last_reweighting, w_err, diag >>
    /\ UNCHANGED << weed_group, window, averager, lock >>
    /\ group0' = weed_group
    /\ UNCHANGED loopvars

\* A run in which the work manager may leave segments incomplete; a run that
\* ended with an error is started again from the state file.
Next ==
    \/ Tick
    \/ LoopStep
    \/ propagate_return
    \/ restore_state

Spec == Init /\ [][Next]_vars

\* The runs without a wallclock limit, seen without the clock.
InitUntimed == Init /\ max_wallclock = None

\* Runs in which a write of run_we may fail.
NextFaults ==
    \/ LoopStep
    \/ propagate_return
    \/ restore_state
    \/ run_we_rollback
    \/ default_write_fails

SpecFaults == InitUntimed /\ [][NextFaults]_vars

\* Runs in which a statement of any transaction of WESimDriver may fail.
NextTxn ==
    \/ NextFaults
    \/ init_sim_fails
    \/ run_we_close_iter_fails

SpecTxn == InitUntimed /\ [][NextTxn]_vars

\* Runs in which the process may be killed and started again.
NextRestart ==
    \/ LoopStep
    \/ propagate_return
    \/ restore_state
    \/ Kill

SpecRestart == InitUntimed /\ [][NextRestart]_vars

\* Runs in which every propagation completes all its segments, nothing fails,
\* and the driver keeps taking steps.
NextLive ==
    \/ Tick
    \/ LoopStep
    \/ propagate_return_complete

SpecLive == Init /\ [][NextLive]_vars /\ WF_vars(NextLive)

\* Runs of one iteration of the loop in which the resampler may return any
\* particles and record any merged and escaped ones.
InitLineage == InitUntimed /\ max_iterations = 1

NextLineage ==
    \/ LoopStep
    \/ propagate_return_complete
    \/ we_driver_run_we_lineage

SpecLineage == InitLineage /\ [][NextLineage]_vars

\* DefaultSimManager initialised with source regions, and one iteration of its
\* loop.
InitSources == InitLineage /\ variant = "default"

NextSources ==
    \/ sim_init_sources
    \/ runtime_init
    \/ sim_master_test
    \/ prepare_iteration
    \/ propagate_segments
    \/ propagate_return_complete
    \/ default_run_we_check
    \/ we_driver_run_we
    \/ default_run_we_reweight
    \/ default_update_segments
    \/ default_create_we_sim_iter
    \/ default_create_segments
    \/ finalize_iteration

SpecSources == InitSources /\ [][NextSources]_vars

\* The reweighting seen alone, over a sequence of iterations.
InitWeed ==
    Init /\ variant = "default" /\ max_iterations = 1 /\ max_wallclock = None

NextWeed ==
    \/ weed_init
    \/ next_iteration
    \/ weed_enter
    \/ weed_storage
    \/ weed_rates
    \/ weed_write
    \/ weed_probAdjustEquil
    \/ weed_gates
    \/ weed_final_assert
    \/ default_reweight

SpecWeed == InitWeed /\ [][NextWeed]_vars

\* The reweighting with every window configuration.
NextWindow ==
    \/ weed_init_window
    \/ next_iteration
    \/ weed_enter
    \/ weed_storage
    \/ weed_rates
    \/ weed_write
    \/ weed_probAdjustEquil
    \/ weed_gates
    \/ weed_final_assert

SpecWindow == InitWeed /\ [][NextWindow]_vars

\* One call of prepare_new_iteration next to another user of the data
\* manager's lock.
NextLock ==
    \/ weed_init
    \/ weed_enter
    \/ weed_storage
    \/ weed_rates
    \/ weed_write
    \/ weed_probAdjustEquil
    \/ weed_gates
    \/ weed_final_assert
    \/ other_acquire
    \/ other_release

SpecLock == InitWeed /\ [][NextLock]_vars

\* ================================================================ claims
\* The segments of iteration n that are not COMPLETE.
Incomplete(n) ==
    { i \in DOMAIN segs : segs[i].we_iter = n /\ segs[i].status # "COMPLETE" }

\* The positions of run_we after its entry check.
InsideRunWe == {"we_t1", "we_resample", "we_t2", "we_reweight", "dm_update",
                "dm_create_iter", "dm_create_segs"}

\* C1: run_we never resamples and never writes rows of iteration N+1 while a
\* segment of the current iteration N is not COMPLETE; with such a segment it
\* raises PropagationIncompleteError and leaves the store and the driver's
\* current iteration as they were.
C1_NoAdvanceWhileIncomplete ==
    /\ [](pc \in InsideRunWe => Incomplete(snap.cur) = {})
    /\ [][(pc = "run_we" /\ Incomplete(cur) # {} /\ pc' # pc)
            => /\ pc' = "raised"
               /\ err' = "PropagationIncompleteError"
               /\ segs' = segs /\ sums' = sums /\ cur' = cur]_vars

\* C1 witness: run_we has raised on an iteration with an incomplete segment.
C1_Witness ==
    /\ pc = "raised" /\ err = "PropagationIncompleteError"
    /\ Incomplete(cur) # {}

\* The stage of an iteration that a position of the driver belongs to.
Stage(p) ==
    CASE p \in {"loop", "open", "count"} -> 0
      [] p = "propagating" -> 1
      [] p = "run_we" -> 2
      [] p \in {"we_t1", "we_resample"} -> 3
      [] p = "we_reweight" -> 4
      [] p \in {"we_t2", "dm_update", "dm_create_iter", "dm_create_segs"} -> 5
      [] p \in {"save", "finalize", "inited"} -> 6
      [] OTHER -> 7

\* C2: within an iteration the steps come in the order dispatch, return of
\* propagation, resampling, optional reweighting, writes of iteration N+1;
\* rows of iteration N+1 are written only after the resampling of N, and no
\* step of an iteration starts before its rows are in the store.
C2_StepOrder ==
    /\ [][(Stage(pc) < 7 /\ Stage(pc') < 7)
            => \/ Stage(pc') >= Stage(pc)
               \/ Stage(pc) = 6 /\ Stage(pc') = 0]_vars
    /\ [][(pc' = "run_we" /\ pc = "propagating") \/ pc' # "run_we"
            \/ pc \in {"run_we", "count", "init"}]_vars
    /\ [][cur' # cur => (pc = "we_resample" \/ pc' = "loop")]_vars
    /\ [][(DOMAIN sums' # DOMAIN sums \/ Len(segs') # Len(segs))
            => (pc = "init" \/ (Stage(pc) = 5 /\ cur = snap.cur + 1))]_vars
    /\ []((pc \in {"open", "count", "propagating", "run_we"}
            /\ caller = "run_sim")
            => (cur \in DOMAIN sums /\ SegIds(cur) # {}))

\* C2 witness: an iteration of the loop went through dispatch and resampling
\* and its successor's rows are written.
C2_Witness ==
    /\ pc \in {"save", "finalize"}
    /\ cur = 2 /\ SegIds(2) # {} /\ 2 \in DOMAIN sums

\* C3 (as claimed): when a write of run_we fails, the store and the driver's
\* current iteration are as they were when run_we was entered.
C3_CommitAllOrNothing ==
    (pc = "raised" /\ err = "StoreError")
        => (segs = snap.segs /\ sums = snap.sums /\ cur = snap.cur)

\* C4 (as claimed): a run that was killed and started again from the state
\* file goes on as an uninterrupted run does: the store never refuses its
\* writes, and when it is done every iteration up to the last has one summary
\* and one set of segments, as many as the summary counts.
C4_RestartIdempotent ==
    kills > 0 =>
        /\ err # "StoreError"
        /\ pc = "done" =>
              \A n \in 1..(max_iterations + 1) :
                  /\ n \in DOMAIN sums
                  /\ Cardinality(SegIds(n)) = sums[n].n_particles

\* C5: the loop neither dispatches nor resamples for an iteration beyond
\* max_iterations and, when every propagation completes, it ends with
\* current_iteration = max_iterations + 1.
C5_LoopTerminates ==
    /\ [](pc \in {"propagating", "we_resample"} => cur <= max_iterations)
    /\ <>(pc = "done" /\ cur = max_iterations + 1)

\* C5 witness: the loop has ended after the last iteration.
C5_Witness == pc = "done" /\ cur = max_iterations + 1 /\ max_iterations = 2

\* The wallclock budget is configured and used up.
WallclockExceeded ==
    \E m \in max_wallclock : \E s \in start_wallclock : clock - s > m

\* C6 (as claimed): with limits.max_wallclock configured, once the wallclock
\* budget is exceeded the loop starts no new iteration, even when
\* current_iteration <= max_iterations.
C6_WallclockStopsLoop ==
    [][(pc = "loop" /\ pc' = "open") => ~WallclockExceeded]_vars

\* The bins of weight > 0.
Support(ws) == { i \in DOMAIN ws : ws[i] > 0 }

\* Gate G1 fails: a bin of original weight > 0 is assigned 0.
G1Fails(orig, new) == \E i \in DOMAIN orig : orig[i] > 0 /\ new[i] = 0

\* Gate G2 fails: a bin of original weight 0 is assigned a weight > 0.
G2Fails(orig, new) == \E i \in DOMAIN orig : orig[i] = 0 /\ new[i] > 0

\* Gate G3 fails: the proposed weights do not sum to 1.
G3Fails(new) == SumSeq(new) # Unit

\* prepare_new_iteration has gone through its gates.
WeedPastGates == w_pc \in {"final", "returned", "raised"} /\ binprobs # << >>

\* C7 (as claimed): after any reweighting step the bins of weight > 0 are the
\* ones of before the step.
C7_SupportPreserved ==
    w_pc \in {"final", "returned", "raised", "reweighted"}
        => Support(Weights(bins)) = Support(Weights(bins0))

\* C8: when the proposed weights fail G1 or G2, prepare_new_iteration leaves
\* every bin, every particle weight and last_reweighting as they were.
C8_RejectedLeavesAll ==
    (WeedPastGates /\ (G1Fails(orig_binprobs, binprobs)
                        \/ G2Fails(orig_binprobs, binprobs)))
        => /\ bins = bins0
           /\ \A i \in DOMAIN bins :
                  ParticleWeights(bins[i]) = ParticleWeights(bins0[i])
           /\ last_reweighting = last0

\* C8 witness: a proposal that gives weight to an empty bin was turned down and
\* prepare_new_iteration has returned.
C8_Witness ==
    /\ w_pc = "returned" /\ diag
    /\ G2Fails(orig_binprobs, binprobs)
    /\ ~G1Fails(orig_binprobs, binprobs)
    /\ \E i \in DOMAIN bins : binprobs[i] # bins[i].weight /\ bins[i].weight > 0

\* C9 (as claimed): when a gate fails, prepare_new_iteration does not raise.
C9_RejectionReturns ==
    (WeedPastGates /\ (\/ G1Fails(orig_binprobs, binprobs)
                        \/ G2Fails(orig_binprobs, binprobs)
                        \/ G3Fails(binprobs)))
        => w_pc # "raised"

\* C10 (as claimed): when the sum-to-one check fails, no bin has been
\* reweighted and last_reweighting has not been updated.
C10_SumCheckedBeforeAccept ==
    (w_pc = "raised" /\ w_err = "G3")
        => (bins = bins0 /\ last_reweighting = last0)

\* The iterations that have a row in the store.
StoredIterations == DOMAIN sums \cup { segs[i].we_iter : i \in DOMAIN segs }

\* The endpoint type the resampling of its iteration gives segment i.
ResampledEndpoint(i) ==
    IF i \in resampled.escaped THEN "RECYCLED"
    ELSE IF i \in resampled.merged THEN "MERGED"
    ELSE "CONTINUATION"

\* C11 (as claimed): whenever the store holds a row of iteration N+1, every
\* COMPLETE segment of iteration N has an endpoint_type in the store, and it is
\* the one its resampling gave it.
C11_EndpointsBeforeNext ==
    \A n \in StoredIterations :
        n > 0 =>
          \A i \in SegIds(n - 1) :
              segs[i].status = "COMPLETE" =>
                /\ segs[i].endpoint_type \in {"CONTINUATION", "MERGED", "RECYCLED"}
                /\ (n = cur /\ resampled.n > 0)
                      => segs[i].endpoint_type = ResampledEndpoint(i)
\* C12: every stored segment with a primary parent p has p among the segments of
\* the iteration before its own, and p is not RECYCLED unless the segment's
\* initial_region is set.
C12_ParentOfPreviousIteration ==
    \A i \in DOMAIN segs :
    \A p \in segs[i].p_parent :
        /\ p \in SegIds(segs[i].we_iter - 1)
        /\ \/ segs[p].endpoint_type # "RECYCLED"
           \/ segs[i].initial_region = "SET"

\* C12 witness: DefaultSimManager.run_we has stored a segment with a primary
\* parent while another segment of the parent's iteration was recycled.
C12_Witness ==
    /\ variant = "default"
    /\ \E i \in DOMAIN segs :
          /\ segs[i].p_parent # None
          /\ \E j \in SegIds(segs[i].we_iter - 1) :
                segs[j].endpoint_type = "RECYCLED"
\* C13 (as claimed): every stored segment of an iteration after the initial one
\* has a primary parent or an initial_region that names a region.
C13_ParentOrRegion ==
    \A i \in DOMAIN segs :
        segs[i].we_iter > 0 =>
            (segs[i].p_parent # None \/ segs[i].initial_region = "SET")

\* The segment stored for the k-th particle of the last resampling.
SegmentOfParticle(k) == segs[Len(segs) - resampled.n + k]

\* The segments of the last resampling are in the store.
NewSegmentsStored ==
    resampled.n > 0 /\ Cardinality(SegIds(cur)) = resampled.n

\* C14 (as claimed): the segment DefaultSimManager.run_we creates from a
\* particle whose p_parent escaped has that parent's segment as its primary
\* parent, and the parent's endpoint_type is RECYCLED.
C14_RecycledPointsBack ==
    (variant = "default" /\ NewSegmentsStored) =>
        \A k \in DOMAIN resampled.particles :
        \A q \in resampled.particles[k].p_parent :
            q \in resampled.escaped =>
                /\ SegmentOfParticle(k).p_parent = Some(q)
                /\ segs[q].endpoint_type = "RECYCLED"
\* C15 (as claimed): in every state of the store, an iteration whose summary is
\* there has all its segments there, and the segments of the iteration before
\* have the endpoint types the resampling recorded.
C15_ReaderSeesWholeIteration ==
    \A n \in DOMAIN sums :
        n > 0 =>
          /\ Cardinality(SegIds(n)) = sums[n].n_particles
          /\ (n = cur /\ resampled.n > 0) =>
                \A i \in SegIds(n - 1) :
                    /\ i \in resampled.merged => segs[i].endpoint_type = "MERGED"
                    /\ i \in resampled.escaped
                          => segs[i].endpoint_type = "RECYCLED"

\* The latest iteration of a set of iterations.
Latest(S) == CHOOSE x \in S : \A y \in S : y <= x

\* C16: the checkpoint is written only by save_state / finalize_iteration after
\* run_we has returned without an error (and at the end of the
\* initialisation), once per iteration, and after it the checkpoint's
\* current_iteration is the latest iteration in the store.
C16_CheckpointAfterCommit ==
    /\ [][ckpt' # ckpt
            => (pc \in {"save", "finalize", "inited"} /\ err = "none")]_vars
    /\ [][(pc \in {"save", "finalize"} /\ pc' = "loop")
            => /\ ckpt' = ckpt + 1
               /\ ckpt' = cur'
               /\ ckpt' = Latest(DOMAIN sums')
               /\ SegIds(ckpt') # {}]_vars
    /\ [](pc \in {"save", "finalize"}
            => (err = "none" /\ cur = snap.cur + 1 /\ cur \in DOMAIN sums))

\* C16 witness: a pass of the loop failed in run_we, the run was started again,
\* and the checkpoint of the retried iteration is written.
C16_Witness ==
    /\ pc = "loop" /\ faults > 0
    /\ ckpt = 2 /\ 2 \in DOMAIN sums
\* The positions of prepare_new_iteration after its entry.
InsidePrepare == {"storage", "rates", "write", "adjust", "gates", "final",
                  "returned", "raised"}

\* C17: with target states configured, or with reweighting not enabled,
\* prepare_new_iteration changes no bin, no particle weight and not
\* last_reweighting, and leaves the 'weed' group of the iteration group as it
\* was.
C17_DisabledChangesNothing ==
    (w_pc \in InsidePrepare /\ (target_states \/ ~do_reweight))
        => /\ w_pc = "returned"
           /\ bins = bins0
           /\ \A i \in DOMAIN bins :
                  ParticleWeights(bins[i]) = ParticleWeights(bins0[i])
           /\ last_reweighting = last0
           /\ weed_group = group0

\* C17 witness: reweighting is requested, target states are present, and
\* prepare_new_iteration has returned.
C17_Witness ==
    w_pc = "returned" /\ target_states /\ do_reweight /\ bins0 = bins
\* The stored last_reweighting counter l, 0 when it was never set.
StoredCounter(l) == IF l = {} THEN 0 ELSE CHOOSE x \in l : TRUE

C19_IncompleteDoesNotEndLoop ==
    (err = "PropagationIncompleteError" /\ caller = "run_sim")
        => pc \in Running

\* C20: no step of run_we changes the weight, the pcoord, the status, the
\* iteration, the lineage or the seg_id of a stored segment; only its
\* endpoint_type may change, and only for a segment the resampler recorded as
\* merged or escaped.
C20_OnlyEndpointChanges ==
    [][(pc \in InsideRunWe \cup {"run_we"})
        => (/\ Len(segs') >= Len(segs)
            /\ \A i \in DOMAIN segs :
                  /\ segs'[i] = [segs[i] EXCEPT
                                   !.endpoint_type = segs'[i].endpoint_type]
                  /\ (i \notin (resampled.merged \cup resampled.escaped)
                        => segs'[i] = segs[i]))]_vars

\* C20 witness: DefaultSimManager.run_we has returned for an iteration with a
\* merged segment and a segment that was neither merged nor recycled.
C20_Witness ==
    /\ pc = "finalize"
    /\ \E i, j \in SegIds(cur - 1) :
          /\ segs[i].status = "COMPLETE" /\ segs[j].status = "COMPLETE"
          /\ segs[i].endpoint_type = "MERGED"
          /\ segs[j].endpoint_type = "CONTINUATION"
          /\ segs[i].weight # segs[j].weight

\* C21: in each pass of the loop propagation is requested if and only if a
\* segment of the current iteration is not COMPLETE; when all are COMPLETE the
\* loop goes to run_we with no segment touched; and propagation is requested
\* from nowhere else.
C21_PropagateIffIncomplete ==
    /\ [][(pc = "count" /\ pc' \in {"propagating", "run_we"})
            => /\ (pc' = "propagating") <=> (Incomplete(cur) # {})
               /\ (Incomplete(cur) = {}) => (pc' = "run_we" /\ segs' = segs)
               /\ \A i \in DOMAIN segs :
                     (segs'[i] # segs[i]) => i \in Incomplete(cur)]_vars
    /\ [][(pc' = "propagating" /\ pc # "propagating") => pc = "count"]_vars

\* C21 witness: WESimDriver was killed after run_we closed the iteration (its
\* endtime is stored, so all its segments were COMPLETE); the run started again
\* and the loop has reached run_we for that iteration without propagating.
C21_Witness ==
    /\ variant = "we_sim" /\ kills > 0 /\ caller = "run_sim"
    /\ pc = "run_we"
    /\ cur \in DOMAIN sums /\ sums[cur].endtime # None
    /\ Incomplete(cur) = {} /\ SegIds(cur) # {}

\* C22 (as claimed): when reweighting is enabled with no target states and it is
\* not yet time to reweight, prepare_new_iteration returns with the 'weed'
\* group of the iteration group as it found it.
C22_NotTimeLeavesStore ==
    (w_pc = "returned" /\ ~reweighting_disabled /\ binprobs = << >>)
        => weed_group = group0

\* C23 (as claimed): the effective window get_rates uses at iteration N is at
\* most weed.max_window_size when that is configured, for a fractional and for
\* a fixed window, and the statistics are asked over [max(1, N - W), N + 1).
C23_WindowClamped ==
    \A a \in averager :
        /\ \A m \in window.max : a.eff <= m
        /\ a.start = Max(1, n_iter - a.eff)
        /\ a.stop = n_iter + 1

\* C29 (as claimed): for every window configuration the constructor accepts,
\* the range [start, stop) get_rates asks for at iteration N has
\* 1 <= start <= N and stop = N + 1.
C29_RangeNotEmpty ==
    \A a \in averager :
        /\ 1 <= a.start /\ a.start <= n_iter
        /\ a.stop = n_iter + 1

\* C24: whenever prepare_new_iteration attempts a reweighting (reweighting
\* enabled, no target states, the period reached) the averager's results are in
\* the datasets of the iteration's 'weed' group when it ends, also when a gate
\* turned the proposal down, by returning or by raising.
C24_AveragesRecorded ==
    /\ (/\ w_pc \in {"final", "returned", "raised"}
        /\ w_err # "ValueError"
        /\ ~reweighting_disabled
        /\ n_iter - StoredCounter(last0) >= reweight_period)
          => (weed_group = "written" /\ averager # None)
    /\ (WeedPastGates /\ (\/ G1Fails(orig_binprobs, binprobs)
                          \/ G2Fails(orig_binprobs, binprobs)
                          \/ G3Fails(binprobs)))
          => weed_group = "written"

\* C24 witness: the proposal emptied a populated bin, prepare_new_iteration
\* raised on its first assertion, and the datasets that replaced those of an
\* earlier run are written.
C24_Witness ==
    /\ w_pc = "raised" /\ w_err = "G1"
    /\ G1Fails(orig_binprobs, binprobs)
    /\ group0 = "old" /\ weed_group = "written"

\* C25 (as claimed): every step of prepare_new_iteration that writes the
\* iteration's 'weed' group or the global last_reweighting attribute is taken
\* with the data manager's lock held by the driver, and the last_reweighting it
\* overwrites is the one it read: no other holder of the lock has written it in
\* between.
C25_WritesUnderLock ==
    /\ [][(/\ w_pc \in InsidePrepare /\ lock # "other" /\ n_iter' = n_iter
           /\ (weed_group' # weed_group
                 \/ last_reweighting' # last_reweighting))
            => lock = "weed"]_vars
    /\ [][(w_pc = "gates" /\ lock # "other"
             /\ last_reweighting' # last_reweighting)
            => last_reweighting = last0]_vars

\* C26 (as claimed): the starttime of an iteration, once set, is never
\* overwritten: opening the iteration again leaves it as it is.
C26_StarttimeSetOnce ==
    [][\A n \in DOMAIN sums :
          (sums[n].starttime # None /\ n \in DOMAIN sums')
              => sums'[n].starttime = sums[n].starttime]_vars

\* C27 (as claimed): the driver's session never has more than one active
\* transaction, and none is left active when init_sim or run_we has returned
\* or raised: every begin() was ended by one commit() or rollback().
C27_OneTransaction ==
    /\ txn \in {0, 1}
    /\ pc \in {"raised", "inited", "save", "we_resample", "loop"} => txn = 0

\* The initial segments of source region i.
SegmentsOfSource(i) ==
    { k \in DOMAIN initial_segments : initial_segments[k] = i }

\* C28 (as claimed): sim_init with source regions makes exactly n_init initial
\* segments (of weight 1 / n_init each, total weight 1), so its assertion
\* holds, whatever the init weights and n_init >= 1; each source before the
\* last gets floor(init_weight * n_init) of them and the last the remainder.
C28_SourceSegments ==
    (variant = "default" /\ pc # "init" /\ sim_config.sources # NoSources)
        => /\ err # "AssertionError"
           /\ Len(initial_segments) = sim_config.n_init
           /\ \A i \in DOMAIN sim_config.sources :
                 Cardinality(SegmentsOfSource(i)) =
                    IF i < Len(sim_config.sources)
                    THEN NSegsOf(sim_config.sources[i], sim_config.n_init)
                    ELSE sim_config.n_init
                           - Cardinality({ k \in DOMAIN initial_segments :
                                             initial_segments[k] < i })
====
